---------------------------- MODULE Spec2Model ----------------------------
(***************************************************************************)
(* pywificontrol: the mode controller (wificontrol.py, class WiFiControl)  *)
(* and the event monitor (wifimonitor.py, class WiFiMonitor).              *)
(*                                                                         *)
(* The three service facades (WpaSupplicant, HostAP, WiFi) are not part of *)
(* the two source files; they are modelled from their description in the   *)
(* specification (section 6): started()/start()/stop()/restart(), radio    *)
(* block()/unblock(), and the connection attempt held by the client        *)
(* facade.  A start/stop/restart call takes an outcome bit: a failed call  *)
(* returns without raising and leaves the service not started (start,      *)
(* restart) or still started (stop).                                       *)
(*                                                                         *)
(* Every operation of the controller is one action that runs the whole     *)
(* method.  The method bodies are operators over a machine record          *)
(*   m = [wpa, hostapd, blocked, attempt, calls, ret]                      *)
(* where m.calls is the sequence of state-changing facade calls the method *)
(* has made so far, each entry holding the service flags right after the   *)
(* call, so that the intermediate steps of a method are observable.        *)
(***************************************************************************)
EXTENDS Naturals, Sequences, FiniteSets, TLC

VARIABLES
    wpaStarted,       \* self.wpa_supplicant.started()
    hostapdStarted,   \* self.hotspot.started()
    blocked,          \* radio blocked (self.wifi.block() / unblock())
    attempt,          \* the connection attempt pending in the client facade
    lastOp,           \* name of the controller operation that ran last
    repeated,         \* the operation before it was the same operation
    opArgs,           \* arguments of the operation that ran last
    pre,              \* facade state right before the operation that ran last
    calls,            \* facade calls made by the operation that ran last
    ret,              \* its return value
    callbacks,        \* WiFiMonitor.callbacks: event -> list of (callback, args)
    last_host_event,  \* WiFiMonitor.last_host_event
    lastSignal,       \* the bus signal handled last (none since a registration)
    dispatched,       \* (event, data) pairs it passed to _execute_callbacks
    invoked,          \* callback invocations made while handling it
    errors,           \* messages passed to logger.error while handling it
    raised,           \* exception that left the handler ("None" when it returned)
    lastResolved,     \* event the last mapped access-point signal resolved to
    mainloop,         \* self._mainloop: "new", "running" or "stopped"
    sysd_manager,     \* self.sysd_manager has been set
    subscribed,       \* the service manager's Subscribe() is in effect
    receivers,        \* signal sources whose receivers are connected
    daemonOp,         \* run() or shutdown(), whichever was called last
    daemonLog,        \* the steps it took
    daemonRaised      \* the exception it raised ("None" when it did not)

ctlVars == <<wpaStarted, hostapdStarted, blocked, attempt,
             lastOp, repeated, opArgs, pre, calls, ret>>
monVars == <<callbacks, last_host_event, lastSignal, dispatched, invoked, errors, raised,
             lastResolved>>
dmnVars == <<mainloop, sysd_manager, subscribed, receivers,
             daemonOp, daemonLog, daemonRaised>>
vars == <<wpaStarted, hostapdStarted, blocked, attempt,
          lastOp, repeated, opArgs, pre, calls, ret,
          callbacks, last_host_event, lastSignal, dispatched, invoked, errors, raised,
          lastResolved,
          mainloop, sysd_manager, subscribed, receivers,
          daemonOp, daemonLog, daemonRaised>>

-----------------------------------------------------------------------------
(* Bounds and input domains *)

\* Outcome of the start/stop/restart call an operation makes on each service
\* (every controller operation makes at most one such call per service).
Outcomes == [wpa_supplicant : BOOLEAN, hotspot : BOOLEAN]

None == "None"
Networks == {"home", "office"}

CLIENT_STATE == "wpa_supplicant"
HOTSPOT_STATE == "hostapd"
OFF_STATE == "wifi_off"

\* start_connecting(..., timeout=10)
DefaultTimeout == 10
Timeouts == {DefaultTimeout, 3}

NoAttempt == [network |-> None, callback |-> None, args |-> None, timeout |-> 0]
NoArgs == [network |-> None, callback |-> None, args |-> None, timeout |-> 0,
           result |-> FALSE]

-----------------------------------------------------------------------------
(* Service facades: WpaSupplicant, HostAP, WiFi *)

Logged(m, f, ok) ==
    [m EXCEPT !.calls = Append(@, [f |-> f, ok |-> ok,
                                   wpa |-> m.wpa, hostapd |-> m.hostapd])]

wpa_started(m) == m.wpa
hotspot_started(m) == m.hostapd

wpa_start(m, oc) ==
    LET ok == oc.wpa_supplicant
    IN  Logged([m EXCEPT !.wpa = IF ok THEN TRUE ELSE @], "wpa_supplicant.start", ok)

wpa_stop(m, oc) ==
    LET ok == oc.wpa_supplicant
    IN  Logged([m EXCEPT !.wpa = IF ok THEN FALSE ELSE @], "wpa_supplicant.stop", ok)

wpa_restart(m, oc) ==
    LET ok == oc.wpa_supplicant
    IN  Logged([m EXCEPT !.wpa = ok], "wpa_supplicant.restart", ok)

hotspot_start(m, oc) ==
    LET ok == oc.hotspot
    IN  Logged([m EXCEPT !.hostapd = IF ok THEN TRUE ELSE @], "hotspot.start", ok)

hotspot_stop(m, oc) ==
    LET ok == oc.hotspot
    IN  Logged([m EXCEPT !.hostapd = IF ok THEN FALSE ELSE @], "hotspot.stop", ok)

hotspot_restart(m, oc) ==
    LET ok == oc.hotspot
    IN  Logged([m EXCEPT !.hostapd = ok], "hotspot.restart", ok)

wifi_block(m) == Logged([m EXCEPT !.blocked = TRUE], "wifi.block", TRUE)
wifi_unblock(m) == Logged([m EXCEPT !.blocked = FALSE], "wifi.unblock", TRUE)

\* the client facade keeps the attempt (network, callback, args, timeout) and
\* arms its timer; a new attempt replaces a pending one
wpa_start_connecting(m, network, callback, args, timeout) ==
    Logged([m EXCEPT !.attempt = [network |-> network, callback |-> callback,
                                  args |-> args, timeout |-> timeout]],
           "wpa_supplicant.start_connecting", TRUE)

wpa_stop_connecting(m) ==
    Logged([m EXCEPT !.attempt = NoAttempt], "wpa_supplicant.stop_connecting", TRUE)

wpa_disconnect(m) == Logged(m, "wpa_supplicant.disconnect", TRUE)

\* status reads of the facades; a failed read raises PropertyError
WpaStatus == [wpa_state |-> "status"]
HotspotSsid == "ssid"

wpa_get_status(m, readOk) ==
    Logged([m EXCEPT !.ret = IF readOk THEN WpaStatus ELSE "PropertyError"],
           "wpa_supplicant.get_status", readOk)

hotspot_get_hotspot_ssid(m, readOk) ==
    Logged([m EXCEPT !.ret = IF readOk THEN HotspotSsid ELSE "PropertyError"],
           "hotspot.get_hotspot_ssid", readOk)

-----------------------------------------------------------------------------
(* WiFiControl *)

\* mutant: the access point is looked at first
get_state_hotspot_first(m) ==
    IF hotspot_started(m) THEN HOTSPOT_STATE
    ELSE IF wpa_started(m) THEN CLIENT_STATE
    ELSE OFF_STATE

get_state(m) ==
    IF wpa_started(m) THEN CLIENT_STATE
    ELSE IF hotspot_started(m) THEN HOTSPOT_STATE
    ELSE OFF_STATE

\* mutant: the client service is left running
start_hotspot_mode_keeps_client(m, oc) ==
    LET m2 == IF hotspot_started(m) THEN hotspot_restart(m, oc)
              ELSE hotspot_start(m, oc)
    IN  [m2 EXCEPT !.ret = "True"]

\* mutant: the access point is brought up before the client service is stopped
start_hotspot_mode_ap_first(m, oc) ==
    LET m1 == IF hotspot_started(m) THEN hotspot_restart(m, oc)
              ELSE hotspot_start(m, oc)
        m2 == IF wpa_started(m1) THEN wpa_stop(m1, oc) ELSE m1
    IN  [m2 EXCEPT !.ret = "True"]

start_hotspot_mode(m, oc) ==
    LET m1 == IF wpa_started(m) THEN wpa_stop(m, oc) ELSE m
        m2 == IF hotspot_started(m1) THEN hotspot_restart(m1, oc)
              ELSE hotspot_start(m1, oc)
    IN  [m2 EXCEPT !.ret = "True"]

\* mutant: the client service is brought up before the access point is stopped
start_client_mode_client_first(m, oc) ==
    LET m1 == IF wpa_started(m) THEN wpa_restart(m, oc)
              ELSE wpa_start(m, oc)
        m2 == IF hotspot_started(m1) THEN hotspot_stop(m1, oc) ELSE m1
    IN  [m2 EXCEPT !.ret = "True"]

start_client_mode(m, oc) ==
    LET m1 == IF hotspot_started(m) THEN hotspot_stop(m, oc) ELSE m
        m2 == IF wpa_started(m1) THEN wpa_restart(m1, oc)
              ELSE wpa_start(m1, oc)
    IN  [m2 EXCEPT !.ret = "True"]

\* mutant: the mode is not looked at
turn_on_wifi_unconditional(m, oc) ==
    [wpa_start(wifi_unblock(m), oc) EXCEPT !.ret = None]

turn_on_wifi(m, oc) ==
    IF get_state(m) = OFF_STATE
    THEN [wpa_start(wifi_unblock(m), oc) EXCEPT !.ret = None]
    ELSE [m EXCEPT !.ret = None]

\* mutant: only a service that reports started is stopped, and the radio is
\* blocked only when something was stopped
turn_off_wifi_only_if_on(m, oc) ==
    LET m1 == IF hotspot_started(m) THEN hotspot_stop(m, oc) ELSE m
        m2 == IF wpa_started(m1) THEN wpa_stop(m1, oc) ELSE m1
    IN  [(IF m2.calls # <<>> THEN wifi_block(m2) ELSE m2) EXCEPT !.ret = None]

turn_off_wifi(m, oc) ==
    [wifi_block(wpa_stop(hotspot_stop(m, oc), oc)) EXCEPT !.ret = None]

\* mutant: the test of the result is inverted
revert_on_connect_failure_inverted(m, result, oc) ==
    IF result
    THEN [start_hotspot_mode(m, oc) EXCEPT !.ret = None]
    ELSE [m EXCEPT !.ret = None]

revert_on_connect_failure(m, result, oc) ==
    IF ~result
    THEN [start_hotspot_mode(m, oc) EXCEPT !.ret = None]
    ELSE [m EXCEPT !.ret = None]

\* mutant: the PropertyError of the read is not caught
get_status_unguarded(m, readOk) ==
    LET state == get_state(m)
        m1 == IF state = CLIENT_STATE THEN wpa_get_status(m, readOk)
              ELSE IF state = HOTSPOT_STATE THEN hotspot_get_hotspot_ssid(m, readOk)
              ELSE m
    IN  IF m1.calls # <<>> /\ ~readOk
        THEN m1
        ELSE [m1 EXCEPT !.ret = <<state, IF m1.calls # <<>> THEN m1.ret ELSE None>>]

\* ret: the pair (state, status)
get_status(m, readOk) ==
    LET state == get_state(m)
        m1 == IF state = CLIENT_STATE THEN wpa_get_status(m, readOk)
              ELSE IF state = HOTSPOT_STATE THEN hotspot_get_hotspot_ssid(m, readOk)
              ELSE m
        status == IF m1.calls # <<>> /\ readOk THEN m1.ret ELSE None
    IN  [m1 EXCEPT !.ret = <<state, status>>]

\* mutant: the attempt is armed before the switch to Client mode
start_connecting_arms_first(m, network, callback, args, timeout, oc) ==
    LET cb == IF callback = None THEN "revert_on_connect_failure" ELSE callback
        ar == IF callback = None THEN None ELSE args
        m1 == wpa_start_connecting(m, network, cb, ar, timeout)
    IN  [start_client_mode(m1, oc) EXCEPT !.ret = None]

start_connecting(m, network, callback, args, timeout, oc) ==
    LET cb == IF callback = None THEN "revert_on_connect_failure" ELSE callback
        ar == IF callback = None THEN None ELSE args
        m1 == start_client_mode(m, oc)
    IN  [wpa_start_connecting(m1, network, cb, ar, timeout) EXCEPT !.ret = None]

reconnect(m, result, network, oc) ==
    IF ~result
    THEN [start_connecting(m, network, None, None, DefaultTimeout, oc)
            EXCEPT !.ret = None]
    ELSE [m EXCEPT !.ret = None]

stop_connecting(m) == [wpa_stop_connecting(m) EXCEPT !.ret = None]

disconnect(m) == [wpa_disconnect(m) EXCEPT !.ret = None]

\* The client facade ends the pending attempt (success, explicit failure or
\* timeout) and calls the attempt's callback with the result.
connect_result(m, result, oc) ==
    LET a == m.attempt
        m0 == [m EXCEPT !.attempt = NoAttempt]
    IN  IF a.callback = "revert_on_connect_failure"
          THEN revert_on_connect_failure(m0, result, oc)
        ELSE IF a.callback = "reconnect"
          THEN reconnect(m0, result, a.args, oc)
        ELSE [m0 EXCEPT !.ret = None]

-----------------------------------------------------------------------------
(* WiFiMonitor: event tables *)

CLIENT_SCANNING == "CLIENT SCANNING"
CLIENT_CONNECTING == "CLIENT CONNECTING"
CLIENT_CONNECTED == "CLIENT CONNECTED"
CLIENT_DISCONNECTED == "CLIENT DISCONNECTED"

CLIENT_STATUS_EVENTS ==
    [k \in {"scanning", "associating", "completed", "disconnected"} |->
        CASE k = "scanning" -> CLIENT_SCANNING
          [] k = "associating" -> CLIENT_CONNECTING
          [] k = "completed" -> CLIENT_CONNECTED
          [] k = "disconnected" -> CLIENT_DISCONNECTED]

HOTSPOT_STARTING == "HOTSPOT STARTING"
HOTSPOT_STARTED == "HOTSPOT STARTED"
HOTSPOT_STOPPING == "HOTSPOT STOPPING"
HOTSPOT_STOPPED == "HOTSPOT STOPPED"
HOTSPOT_FAILED == "HOTSPOT FAILED"

HOTSPOT_STATUS_EVENTS ==
    [k \in {<<"activating", "start">>, <<"active", "running">>,
            <<"deactivating", "stop-post">>, <<"deactivating", "stop-sigterm">>,
            <<"inactive", "dead">>, <<"failed", "failed">>} |->
        CASE k = <<"activating", "start">> -> HOTSPOT_STARTING
          [] k = <<"active", "running">> -> HOTSPOT_STARTED
          [] k = <<"deactivating", "stop-post">> -> HOTSPOT_STOPPING
          [] k = <<"deactivating", "stop-sigterm">> -> HOTSPOT_STOPPING
          [] k = <<"inactive", "dead">> -> HOTSPOT_STOPPED
          [] k = <<"failed", "failed">> -> HOTSPOT_FAILED]

LEASE_UP == "LEASE UP"
LEASE_ADDED == "LEASE ADDED"
LEASE_UPDATED == "LEASE UPDATED"
LEASE_DELETED == "LEASE DELETED"

HOTSPOT_LEASE_EVENTS ==
    [k \in {"Up", "DhcpLeaseAdded", "DhcpLeaseUpdated", "DhcpLeaseDeleted"} |->
        CASE k = "Up" -> LEASE_UP
          [] k = "DhcpLeaseAdded" -> LEASE_ADDED
          [] k = "DhcpLeaseUpdated" -> LEASE_UPDATED
          [] k = "DhcpLeaseDeleted" -> LEASE_DELETED]

\* dict.get(key): the value, or None when the key is absent
Get(d, k) == IF k \in DOMAIN d THEN d[k] ELSE None

\* truth value of a value read with Get (None and the empty string are false)
Truthy(v) == v # None /\ v # ""

-----------------------------------------------------------------------------
(* WiFiMonitor: callback registry and dispatch *)

\* Callables a client may register.  "raises": the call raises an Exception;
\* "named": the callable has a __name__ attribute (a function or a method has
\* one, a functools.partial or a callable object has none).
Callables ==
    { [id |-> "on_event", raises |-> FALSE, named |-> TRUE],
      [id |-> "on_event_failing", raises |-> TRUE, named |-> TRUE],
      [id |-> "partial_failing", raises |-> TRUE, named |-> FALSE] }

NoCallbacks == [e \in {} |-> <<>>]

\* no bus signal handled yet
NoSignal == [source |-> None, props |-> [k \in {} |-> ""], args |-> <<>>,
             readOk |-> TRUE]

\* most registrations made in one run of the model
MaxRegs == 2

\* the monitor as the handlers see it
Mon == [callbacks |-> callbacks, last_host_event |-> last_host_event,
        dispatched |-> <<>>, invoked |-> <<>>, errors |-> <<>>, raised |-> None]

register_callback(cbs, msg, callback, args) ==
    LET cbs1 == IF msg \notin DOMAIN cbs
                THEN [e \in DOMAIN cbs \cup {msg} |->
                        IF e = msg THEN <<>> ELSE cbs[e]]
                ELSE cbs
    IN  [cbs1 EXCEPT ![msg] = Append(@, [callback |-> callback, args |-> args])]

\* the loop of _execute_callbacks from entry i of the event's list on
RECURSIVE execute_from(_, _, _, _, _)
execute_from(mo, list, i, event, data) ==
    IF i > Len(list) THEN mo
    ELSE LET callback == list[i].callback
             called == [mo EXCEPT !.invoked =
                           Append(@, [callback |-> callback.id,
                                      argv |-> <<event, data>>])]
         IN  IF ~callback.raises
               THEN execute_from(called, list, i + 1, event, data)
             ELSE IF callback.named
               THEN execute_from(
                        [called EXCEPT !.errors =
                            Append(@, <<"Callback execution error", callback.id>>)],
                        list, i + 1, event, data)
             \* callback.__name__ fails inside the except clause
             ELSE [called EXCEPT !.raised = "AttributeError"]

_execute_callbacks(mo, event, data) ==
    LET list == Get(mo.callbacks, event)
        mo1 == [mo EXCEPT !.dispatched = Append(@, [event |-> event, data |-> data])]
    IN  IF list # None
        THEN execute_from(mo1, list, 1, event, data)
        ELSE mo1

-----------------------------------------------------------------------------
(* WiFiMonitor: signal handlers *)

_wpa_properties_changed(mo, props, readOk) ==
    LET wpa_state == Get(props, "State")
        event == Get(CLIENT_STATUS_EVENTS, wpa_state)
    IN  IF Truthy(wpa_state)
        THEN IF event # None
             THEN IF readOk
                  THEN _execute_callbacks(mo, event, WpaStatus)
                  ELSE [mo EXCEPT !.raised = "PropertyError"]
             ELSE [mo EXCEPT !.errors = Append(@, <<"Unmapped WPA state", wpa_state>>)]
        ELSE mo

_hostapd_properties_changed(mo, props, readOk) ==
    LET active_state == Get(props, "ActiveState")
        sub_state == Get(props, "SubState")
        event == Get(HOTSPOT_STATUS_EVENTS, <<active_state, sub_state>>)
    IN  IF Truthy(active_state) /\ Truthy(sub_state)
        THEN IF event # None
             THEN IF event # mo.last_host_event
                  THEN LET mo1 == [mo EXCEPT !.last_host_event = event]
                       IN  IF readOk
                           THEN _execute_callbacks(mo1, event, HotspotSsid)
                           ELSE [mo1 EXCEPT !.raised = "PropertyError"]
                  ELSE mo
             ELSE [mo EXCEPT !.errors =
                      Append(@, <<"Unmapped HOSTAPD state", active_state, sub_state>>)]
        ELSE mo

\* mutant: the mode is not looked at
_dhcp_lease_changed_ungated(mo, state, args) ==
    LET signal == args[1]
        event == Get(HOTSPOT_LEASE_EVENTS, signal)
        data == IF Len(args) = 4
                THEN [name |-> args[4], ip |-> args[2], mac |-> args[3]]
                ELSE [k \in {} |-> ""]
    IN  IF event # None
        THEN _execute_callbacks(mo, event, data)
        ELSE [mo EXCEPT !.errors = Append(@, <<"Unmapped DNSMASQ signal", signal>>)]

\* args: the signal name bound by functools.partial, then the signal's fields
_dhcp_lease_changed(mo, state, args) ==
    IF state # HOTSPOT_STATE THEN mo
    ELSE LET signal == args[1]
             event == Get(HOTSPOT_LEASE_EVENTS, signal)
             data == IF Len(args) = 4
                     THEN [name |-> args[4], ip |-> args[2], mac |-> args[3]]
                     ELSE [k \in {} |-> ""]
         IN  IF event # None
             THEN _execute_callbacks(mo, event, data)
             ELSE [mo EXCEPT !.errors = Append(@, <<"Unmapped DNSMASQ signal", signal>>)]

-----------------------------------------------------------------------------
(* WiFiMonitor: run and shutdown *)

\* the steps of _initialize, in the order of the code
InitSteps ==
    << "systemd.get_object", "sysd_manager.Subscribe",
       "add_signal_receiver(wpa_supplicant)", "add_signal_receiver(hostapd)",
       "dnsmasq.get_object", "dnsmasq.connect_to_signal" >>

NoDaemonOp == [name |-> None, fail |-> None, unsubOk |-> TRUE, wasRunning |-> FALSE]

Dmn == [mainloop |-> mainloop, sysd_manager |-> sysd_manager,
        subscribed |-> subscribed, receivers |-> receivers,
        log |-> <<>>, raised |-> None]

\* one step of _initialize that did not fail
init_step(d, step) ==
    LET d1 == [d EXCEPT !.log = Append(@, step)]
    IN  CASE step = "systemd.get_object" -> [d1 EXCEPT !.sysd_manager = TRUE]
          [] step = "sysd_manager.Subscribe" -> [d1 EXCEPT !.subscribed = TRUE]
          [] step = "add_signal_receiver(wpa_supplicant)" ->
                [d1 EXCEPT !.receivers = @ \cup {"wpa_supplicant"}]
          [] step = "add_signal_receiver(hostapd)" ->
                [d1 EXCEPT !.receivers = @ \cup {"hostapd"}]
          [] step = "dnsmasq.get_object" -> d1
          [] step = "dnsmasq.connect_to_signal" ->
                [d1 EXCEPT !.receivers = @ \cup {"dnsmasq"}]

\* _initialize from step i on; the bus call of step `fail` raises DBusException
RECURSIVE initialize_from(_, _, _)
initialize_from(d, i, fail) ==
    IF i > Len(InitSteps) THEN d
    ELSE IF InitSteps[i] = fail THEN [d EXCEPT !.raised = "DBusException"]
    ELSE initialize_from(init_step(d, InitSteps[i]), i + 1, fail)

_initialize(d, fail) == initialize_from(d, 1, fail)

\* mutant: the loop is entered whether or not _initialize raised
run_enters_loop_anyway(d, fail) ==
    LET d1 == _initialize(d, fail)
    IN  [d1 EXCEPT !.raised = None, !.mainloop = "running",
                   !.log = Append(@, "mainloop.run")]

run(d, fail) ==
    LET d1 == _initialize(d, fail)
    IN  IF d1.raised = "DBusException"
        THEN [d1 EXCEPT !.raised = "WiFiMonitorError",
                        !.log = Append(@, "logger.error")]
        ELSE [d1 EXCEPT !.mainloop = "running", !.log = Append(@, "mainloop.run")]

_deinitialize(d, unsubOk) ==
    IF ~d.sysd_manager THEN [d EXCEPT !.raised = "AttributeError"]
    ELSE IF unsubOk
         THEN [d EXCEPT !.subscribed = FALSE,
                        !.log = Append(@, "sysd_manager.Unsubscribe")]
         ELSE [d EXCEPT !.raised = "WiFiMonitorError",
                        !.log = Append(@, "logger.error")]

shutdown(d, unsubOk) ==
    LET d1 == _deinitialize(d, unsubOk)
    IN  IF d1.raised # None THEN d1
        ELSE [d1 EXCEPT !.mainloop = IF @ = "running" THEN "stopped" ELSE @,
                        !.log = Append(@, "mainloop.quit")]

-----------------------------------------------------------------------------
(* The controller as a state machine *)

Cur == [wpa |-> wpaStarted, hostapd |-> hostapdStarted, blocked |-> blocked,
        attempt |-> attempt, calls |-> <<>>, ret |-> None]

Snapshot == [wpa |-> wpaStarted, hostapd |-> hostapdStarted, blocked |-> blocked,
             attempt |-> attempt]

Do(name, args, m) ==
    /\ wpaStarted' = m.wpa
    /\ hostapdStarted' = m.hostapd
    /\ blocked' = m.blocked
    /\ attempt' = m.attempt
    /\ calls' = m.calls
    /\ ret' = m.ret
    /\ pre' = Snapshot
    /\ lastOp' = name
    /\ repeated' = (lastOp = name)
    /\ opArgs' = args
    /\ UNCHANGED monVars
    /\ UNCHANGED dmnVars

GetState == Do("get_state", NoArgs, [Cur EXCEPT !.ret = get_state(Cur)])

StartHotspotMode ==
    \E oc \in Outcomes : Do("start_hotspot_mode", NoArgs, start_hotspot_mode(Cur, oc))

StartClientMode ==
    \E oc \in Outcomes : Do("start_client_mode", NoArgs, start_client_mode(Cur, oc))

GetStatus ==
    \E readOk \in BOOLEAN : Do("get_status", NoArgs, get_status(Cur, readOk))

TurnOnWifi ==
    \E oc \in Outcomes : Do("turn_on_wifi", NoArgs, turn_on_wifi(Cur, oc))

TurnOffWifi ==
    \E oc \in Outcomes : Do("turn_off_wifi", NoArgs, turn_off_wifi(Cur, oc))

\* callers pass no callback, their own callback, or the controller's reconnect
\* with the network as its fixed argument
ConnectInputs ==
    { i \in [network : Networks, callback : {None, "user_cb", "reconnect"},
             args : {None, "x"} \cup Networks, timeout : Timeouts,
             result : {FALSE}] :
        (i.callback = "reconnect") <=> (i.args \in Networks) }

StartConnecting ==
    \E i \in ConnectInputs, oc \in Outcomes :
        Do("start_connecting", i,
           start_connecting(Cur, i.network, i.callback, i.args, i.timeout, oc))

StopConnecting == Do("stop_connecting", NoArgs, stop_connecting(Cur))

Disconnect == Do("disconnect", NoArgs, disconnect(Cur))

ConnectResult ==
    \E result \in BOOLEAN, oc \in Outcomes :
        /\ attempt # NoAttempt
        /\ Do("connect_result", [NoArgs EXCEPT !.result = result],
              connect_result(Cur, result, oc))

InitControl ==
    /\ wpaStarted \in BOOLEAN
    /\ hostapdStarted \in BOOLEAN
    /\ blocked \in BOOLEAN
    /\ attempt = NoAttempt
    /\ lastOp = "init"
    /\ repeated = FALSE
    /\ opArgs = NoArgs
    /\ pre = Snapshot
    /\ calls = <<>>
    /\ ret = None

InitMonitor ==
    /\ callbacks = NoCallbacks
    /\ last_host_event = None
    /\ lastSignal = NoSignal
    /\ dispatched = <<>>
    /\ invoked = <<>>
    /\ errors = <<>>
    /\ raised = None
    /\ lastResolved = None

InitDaemon ==
    /\ mainloop = "new"
    /\ sysd_manager = FALSE
    /\ subscribed = FALSE
    /\ receivers = {}
    /\ daemonOp = NoDaemonOp
    /\ daemonLog = <<>>
    /\ daemonRaised = None

Init == InitControl /\ InitMonitor /\ InitDaemon

Next ==
    \/ GetState
    \/ GetStatus
    \/ StartHotspotMode
    \/ StartClientMode
    \/ TurnOnWifi
    \/ TurnOffWifi
    \/ StartConnecting
    \/ StopConnecting
    \/ Disconnect
    \/ ConnectResult

Spec == Init /\ [][Next]_vars

-----------------------------------------------------------------------------
(* The monitor as a state machine *)

\* the event an access-point signal resolves to, None when it resolves to none
Resolved(props) ==
    IF "ActiveState" \in DOMAIN props /\ "SubState" \in DOMAIN props
    THEN Get(HOTSPOT_STATUS_EVENTS, <<props["ActiveState"], props["SubState"]>>)
    ELSE None

Handled(signal, mo) ==
    /\ callbacks' = mo.callbacks
    /\ last_host_event' = mo.last_host_event
    /\ dispatched' = mo.dispatched
    /\ invoked' = mo.invoked
    /\ errors' = mo.errors
    /\ raised' = mo.raised
    /\ lastSignal' = signal
    /\ lastResolved' = IF signal.source = "hostapd" /\ Resolved(signal.props) # None
                       THEN Resolved(signal.props)
                       ELSE lastResolved
    /\ UNCHANGED ctlVars
    /\ UNCHANGED dmnVars

RegEvents == {CLIENT_CONNECTED, HOTSPOT_STARTED, LEASE_ADDED}
FixedArgs == {<<>>, <<"a">>}

Registrations ==
    LET Count(e) == IF e \in DOMAIN callbacks THEN Len(callbacks[e]) ELSE 0
    IN  Count(CLIENT_CONNECTED) + Count(HOTSPOT_STARTED) + Count(LEASE_ADDED)

RegisterCallback ==
    \E msg \in RegEvents, callback \in Callables, args \in FixedArgs :
        /\ Registrations < MaxRegs
        /\ callback.raises => args = <<>>
        /\ callbacks' = register_callback(callbacks, msg, callback, args)
        \* what the last handler did was observed under the registry as it was
        /\ lastSignal' = NoSignal
        /\ dispatched' = <<>>
        /\ invoked' = <<>>
        /\ errors' = <<>>
        /\ raised' = None
        /\ UNCHANGED <<last_host_event, lastResolved>>
        /\ UNCHANGED ctlVars
        /\ UNCHANGED dmnVars

WpaProps ==
    {[k \in {} |-> ""]} \cup
    {[k \in {"State"} |-> st] :
        st \in {"scanning", "associating", "completed", "disconnected",
                "inactive", "authenticating"}}

WpaPropertiesChanged ==
    \E props \in WpaProps, readOk \in BOOLEAN :
        Handled([NoSignal EXCEPT !.source = "wpa_supplicant", !.props = props,
                                 !.readOk = readOk],
                _wpa_properties_changed(Mon, props, readOk))

HostapdProps ==
    {[k \in {"ActiveState"} |-> "active"]} \cup
    {[k \in {"ActiveState", "SubState"} |->
        IF k = "ActiveState" THEN p[1] ELSE p[2]] :
        p \in {<<"active", "running">>, <<"deactivating", "stop-post">>,
               <<"deactivating", "stop-sigterm">>, <<"active", "dead">>}}

HostapdPropertiesChanged ==
    \E props \in HostapdProps, readOk \in BOOLEAN :
        Handled([NoSignal EXCEPT !.source = "hostapd", !.props = props,
                                 !.readOk = readOk],
                _hostapd_properties_changed(Mon, props, readOk))

LeaseSignals == {"Up", "DhcpLeaseAdded", "DhcpLeaseUpdated", "DhcpLeaseDeleted", "Renewed"}

LeaseArgs ==
    {<<s>> : s \in LeaseSignals} \cup
    {<<s, "10.0.0.2", "aa:bb", "peer">> : s \in LeaseSignals}

DhcpLeaseChanged ==
    \E args \in LeaseArgs :
        Handled([NoSignal EXCEPT !.source = "dnsmasq", !.args = args],
                _dhcp_lease_changed(Mon, get_state(Cur), args))

NextMonitor ==
    \/ RegisterCallback
    \/ WpaPropertiesChanged
    \/ HostapdPropertiesChanged
    \/ DhcpLeaseChanged

\* the handlers never read the radio block state: one value of it is enough
InitMonitorSpec == Init /\ ~blocked

SpecMonitor == InitMonitorSpec /\ [][NextMonitor]_vars

-----------------------------------------------------------------------------
(* The daemon as a state machine: run, shutdown, and the signals the running
   loop delivers to the connected receivers *)

DaemonDone(op, d) ==
    /\ mainloop' = d.mainloop
    /\ sysd_manager' = d.sysd_manager
    /\ subscribed' = d.subscribed
    /\ receivers' = d.receivers
    /\ daemonLog' = d.log
    /\ daemonRaised' = d.raised
    /\ daemonOp' = op
    /\ UNCHANGED ctlVars
    /\ UNCHANGED monVars

InitFailures == {None} \cup {InitSteps[i] : i \in 1..Len(InitSteps)}

Run ==
    \E fail \in InitFailures :
        /\ mainloop # "running"
        /\ DaemonDone([NoDaemonOp EXCEPT !.name = "run", !.fail = fail],
                      run(Dmn, fail))

Shutdown ==
    \E unsubOk \in BOOLEAN :
        DaemonDone([NoDaemonOp EXCEPT !.name = "shutdown", !.unsubOk = unsubOk,
                                     !.wasRunning = (mainloop = "running")],
                   shutdown(Dmn, unsubOk))

Delivered(source) == mainloop = "running" /\ source \in receivers

DeliverWpa == Delivered("wpa_supplicant") /\ WpaPropertiesChanged

DeliverHostapd == Delivered("hostapd") /\ HostapdPropertiesChanged

DeliverLease == Delivered("dnsmasq") /\ DhcpLeaseChanged

NextDaemon ==
    \/ Run
    \/ Shutdown
    \/ DeliverWpa
    \/ DeliverHostapd
    \/ DeliverLease

SpecDaemon == Init /\ [][NextDaemon]_vars

-----------------------------------------------------------------------------
(* Properties of the mode controller *)

AllOk == \A i \in 1..Len(calls) : calls[i].ok
CallNames == [i \in 1..Len(calls) |-> calls[i].f]
Services == [wpa |-> wpaStarted, hostapd |-> hostapdStarted]
ServicesBefore == [wpa |-> pre.wpa, hostapd |-> pre.hostapd]

\* C1: when the attempt started by start_connecting(network, callback=None)
\* ends with result False, revert_on_connect_failure runs start_hotspot_mode
\* (the last facade call starts or restarts the access point) and, the facade
\* calls succeeding, get_state() is then Hotspot; when it ends with result
\* True no facade call is made, the services are as before, and a mode that
\* was Client stays Client.
C1_FallbackOnFailedConnect ==
    (lastOp = "connect_result" /\ pre.attempt.callback = "revert_on_connect_failure")
    => IF opArgs.result
       THEN /\ calls = <<>>
            /\ Services = ServicesBefore
            /\ (pre.wpa => get_state(Cur) = CLIENT_STATE)
       ELSE /\ calls # <<>>
            /\ calls[Len(calls)].f \in {"hotspot.start", "hotspot.restart"}
            /\ (AllOk => /\ get_state(Cur) = HOTSPOT_STATE
                         /\ hostapdStarted /\ ~wpaStarted)

C1_Witness ==
    /\ lastOp = "connect_result"
    /\ pre.attempt.callback = "revert_on_connect_failure"
    /\ ~opArgs.result
    /\ pre.wpa /\ ~pre.hostapd
    /\ AllOk
    /\ CallNames = <<"wpa_supplicant.stop", "hotspot.start">>
    /\ get_state(Cur) = HOTSPOT_STATE

\* C2: an operation that begins with at most one of the two services started
\* and whose facade calls all succeed never has both services started, neither
\* after any of its facade calls nor when it ends.
C2_MutualExclusion ==
    (~(pre.wpa /\ pre.hostapd) /\ AllOk)
    => /\ ~(wpaStarted /\ hostapdStarted)
       /\ \A i \in 1..Len(calls) : ~(calls[i].wpa /\ calls[i].hostapd)

C2_Witness ==
    /\ lastOp = "start_hotspot_mode"
    /\ pre.wpa /\ ~pre.hostapd
    /\ AllOk
    /\ Len(calls) = 2
    /\ hostapdStarted /\ ~wpaStarted

\* C3 as stated: get_state() is Hotspot if the access point is started, else
\* Client if the client service is started, else Off, and changes no facade
\* state.
C3_HotspotFirst ==
    lastOp = "get_state"
    => /\ ret = IF hostapdStarted THEN HOTSPOT_STATE
                ELSE IF wpaStarted THEN CLIENT_STATE
                ELSE OFF_STATE
       /\ calls = <<>>
       /\ Snapshot = pre

\* C3 amended: get_state() is Client if the client service is started, else
\* Hotspot if the access point is started, else Off, and changes no facade
\* state.
C3_ClientFirst ==
    lastOp = "get_state"
    => /\ ret = IF wpaStarted THEN CLIENT_STATE
                ELSE IF hostapdStarted THEN HOTSPOT_STATE
                ELSE OFF_STATE
       /\ calls = <<>>
       /\ Snapshot = pre

C3_Witness ==
    /\ lastOp = "get_state"
    /\ wpaStarted /\ hostapdStarted
    /\ ret = CLIENT_STATE

\* C4: start_hotspot_mode stops the client service exactly when it was
\* started, before any call on the access point, then restarts the access
\* point if it was started and starts it otherwise; when the calls succeed the
\* access point is started and the client service is not (mode Hotspot).
C4_StartHotspotMode ==
    lastOp = "start_hotspot_mode"
    => /\ CallNames =
            (IF pre.wpa THEN <<"wpa_supplicant.stop">> ELSE <<>>)
            \o <<IF pre.hostapd THEN "hotspot.restart" ELSE "hotspot.start">>
       /\ (AllOk => /\ hostapdStarted /\ ~wpaStarted
                    /\ get_state(Cur) = HOTSPOT_STATE)

C4_Witness ==
    /\ lastOp = "start_hotspot_mode"
    /\ pre.wpa /\ pre.hostapd
    /\ CallNames = <<"wpa_supplicant.stop", "hotspot.restart">>
    /\ AllOk
    /\ get_state(Cur) = HOTSPOT_STATE

\* C5: start_hotspot_mode (start_client_mode) returns True exactly when the
\* access point (the client service) is started afterwards, and when it is not
\* the other service, once stopped, stays stopped.
C5_ReturnReflectsStart ==
    /\ lastOp = "start_hotspot_mode"
       => /\ (ret = "True") <=> hostapdStarted
          /\ (~hostapdStarted /\ pre.wpa /\ calls[1].ok) => ~wpaStarted
    /\ lastOp = "start_client_mode"
       => /\ (ret = "True") <=> wpaStarted
          /\ (~wpaStarted /\ pre.hostapd /\ calls[1].ok) => ~hostapdStarted

\* C6: start_client_mode stops the access point exactly when it was started,
\* before any call on the client service, then restarts the client service if
\* it was started and starts it otherwise; when the calls succeed the client
\* service is started and the access point is not (mode Client).
C6_StartClientMode ==
    lastOp = "start_client_mode"
    => /\ CallNames =
            (IF pre.hostapd THEN <<"hotspot.stop">> ELSE <<>>)
            \o <<IF pre.wpa THEN "wpa_supplicant.restart" ELSE "wpa_supplicant.start">>
       /\ (AllOk => /\ wpaStarted /\ ~hostapdStarted
                    /\ get_state(Cur) = CLIENT_STATE)

C6_Witness ==
    /\ lastOp = "start_client_mode"
    /\ pre.hostapd /\ ~pre.wpa
    /\ CallNames = <<"hotspot.stop", "wpa_supplicant.start">>
    /\ AllOk
    /\ get_state(Cur) = CLIENT_STATE

\* C7: turn_on_wifi, when neither service was started, unblocks the radio and
\* then starts the client service (mode Client when the start succeeds); when
\* a service was started it makes no facade call and leaves both started flags
\* and the radio block state as they were.
C7_TurnOnWifi ==
    lastOp = "turn_on_wifi"
    => IF ~pre.wpa /\ ~pre.hostapd
       THEN /\ CallNames = <<"wifi.unblock", "wpa_supplicant.start">>
            /\ ~blocked
            /\ ~hostapdStarted
            /\ (AllOk => wpaStarted /\ get_state(Cur) = CLIENT_STATE)
       ELSE /\ calls = <<>>
            /\ Snapshot = pre

C7_Witness ==
    /\ lastOp = "turn_on_wifi"
    /\ ~pre.wpa /\ ~pre.hostapd /\ pre.blocked
    /\ AllOk
    /\ wpaStarted /\ ~blocked

\* C8: turn_off_wifi always stops the access point, stops the client service
\* and blocks the radio, in that order, whatever the mode was; when the calls
\* succeed the mode is Off with the radio blocked, and a second call right
\* after a call that reached that state ends in the same state.
C8_TurnOffWifi ==
    lastOp = "turn_off_wifi"
    => /\ CallNames = <<"hotspot.stop", "wpa_supplicant.stop", "wifi.block">>
       /\ blocked
       /\ ret = None
       /\ (AllOk => ~wpaStarted /\ ~hostapdStarted /\ get_state(Cur) = OFF_STATE)
       /\ (repeated /\ AllOk /\ ~pre.wpa /\ ~pre.hostapd /\ pre.blocked)
          => Snapshot = pre

C8_Witness ==
    /\ lastOp = "turn_off_wifi"
    /\ repeated
    /\ AllOk
    /\ ~pre.wpa /\ ~pre.hostapd /\ pre.blocked
    /\ Snapshot = pre

-----------------------------------------------------------------------------
(* Properties of the callback dispatcher *)

\* the list registered for the event the last handler dispatched
DispatchedList ==
    IF dispatched = <<>> THEN <<>>
    ELSE IF dispatched[1].event \in DOMAIN callbacks
         THEN callbacks[dispatched[1].event]
         ELSE <<>>

\* C9: a dispatch of event E invokes the callbacks registered for E in their
\* registration order, once per registration, and no other callback; with no
\* registration for E, or no dispatch, nothing is invoked.
C9_DispatchOrder ==
    [i \in 1..Len(invoked) |-> invoked[i].callback]
        = [i \in 1..Len(DispatchedList) |-> DispatchedList[i].callback.id]

\* C10: every invocation made by a dispatch carries the event, the payload and
\* the fixed arguments its registration supplied.
C10_FixedArgsPassed ==
    \A i \in 1..Len(invoked) :
        invoked[i].argv
            = <<dispatched[1].event, dispatched[1].data>> \o DispatchedList[i].args

\* C11: in a dispatch no error leaves _execute_callbacks, every callback
\* registered for the event is invoked although an earlier one raised, and
\* each callback that raised is logged with its identity; this for every kind
\* of callable.
C11_CallbackIsolation ==
    dispatched # <<>>
    => /\ raised = None
       /\ Len(invoked) = Len(DispatchedList)
       /\ \A i \in 1..Len(DispatchedList) :
            DispatchedList[i].callback.raises
            => \E j \in 1..Len(errors) :
                 errors[j] = <<"Callback execution error", DispatchedList[i].callback.id>>

-----------------------------------------------------------------------------
(* Properties of the event normalizer *)

\* C12: an access-point signal that resolves to the event the preceding
\* resolved signal resolved to is not dispatched, and one that resolves to a
\* different event is dispatched, once, with the access point's network name.
C12_EdgeOnlyDelivery ==
    [][ (lastSignal'.source = "hostapd" /\ Resolved(lastSignal'.props) # None)
        => dispatched' =
             IF Resolved(lastSignal'.props) = lastResolved
             THEN <<>>
             ELSE <<[event |-> Resolved(lastSignal'.props), data |-> HotspotSsid]>>
      ]_vars

\* C13: a client signal whose State is in the lookup table is dispatched
\* exactly once, as its table entry; a signal with an unmapped State, or with
\* none, is not dispatched.
C13_ClientNormalization ==
    lastSignal.source = "wpa_supplicant"
    => LET st == Get(lastSignal.props, "State")
       IN  dispatched =
             IF st \in DOMAIN CLIENT_STATUS_EVENTS
             THEN <<[event |-> CLIENT_STATUS_EVENTS[st], data |-> WpaStatus]>>
             ELSE <<>>

\* C14: each of the raw states scanning, associating, completed, disconnected
\* and inactive is dispatched as Scanning, Connecting, Connected, Disconnected
\* and Inactive respectively (the status read succeeding).
C14_ClientVocabulary ==
    LET st == Get(lastSignal.props, "State")
    IN  ( /\ lastSignal.source = "wpa_supplicant"
          /\ lastSignal.readOk
          /\ st \in {"scanning", "associating", "completed", "disconnected", "inactive"} )
        => /\ Len(dispatched) = 1
           /\ dispatched[1].event =
                CASE st = "scanning" -> "CLIENT SCANNING"
                  [] st = "associating" -> "CLIENT CONNECTING"
                  [] st = "completed" -> "CLIENT CONNECTED"
                  [] st = "disconnected" -> "CLIENT DISCONNECTED"
                  [] st = "inactive" -> "CLIENT INACTIVE"

\* C15: a lease-manager signal delivered while get_state() is not Hotspot
\* dispatches nothing and invokes no callback, whatever its name and field
\* count; delivered while get_state() is Hotspot, a signal named Up,
\* DhcpLeaseAdded, DhcpLeaseUpdated or DhcpLeaseDeleted is dispatched exactly
\* once, as LEASE UP, LEASE ADDED, LEASE UPDATED or LEASE DELETED.
C15_LeaseGating ==
    lastSignal.source = "dnsmasq"
    => LET signal == lastSignal.args[1]
       IN  IF get_state(Cur) # HOTSPOT_STATE
           THEN dispatched = <<>> /\ invoked = <<>>
           ELSE signal \in {"Up", "DhcpLeaseAdded", "DhcpLeaseUpdated", "DhcpLeaseDeleted"}
                => /\ Len(dispatched) = 1
                   /\ dispatched[1].event =
                        CASE signal = "Up" -> "LEASE UP"
                          [] signal = "DhcpLeaseAdded" -> "LEASE ADDED"
                          [] signal = "DhcpLeaseUpdated" -> "LEASE UPDATED"
                          [] signal = "DhcpLeaseDeleted" -> "LEASE DELETED"

C15_Witness ==
    /\ lastSignal.source = "dnsmasq"
    /\ lastSignal.args = <<"DhcpLeaseAdded", "10.0.0.2", "aa:bb", "peer">>
    /\ hostapdStarted /\ ~wpaStarted
    /\ Len(dispatched) = 1
    /\ dispatched[1].event = LEASE_ADDED
    /\ dispatched[1].data = [name |-> "peer", ip |-> "10.0.0.2", mac |-> "aa:bb"]
    /\ Len(invoked) = 1

\* C20: last_host_event changes only in a step that dispatches a hotspot
\* event.
C20_DedupTracksDelivered ==
    [][ last_host_event' # last_host_event => dispatched' # <<>> ]_vars

-----------------------------------------------------------------------------
(* Properties of the daemon *)

\* C16: shutdown() invoked on a running monitor leaves the event loop
\* stopped, also when the Unsubscribe call fails; in that case a
\* WiFiMonitorError is raised and the loop is stopped all the same.
C16_ShutdownStopsLoop ==
    (daemonOp.name = "shutdown" /\ daemonOp.wasRunning)
    => /\ mainloop = "stopped"
       /\ ~daemonOp.unsubOk => daemonRaised = "WiFiMonitorError"

\* C17: run() enters the event loop only after the steps of _initialize have
\* all completed, in their order; when a step fails, run() raises
\* WiFiMonitorError and the event loop is not entered.
C17_StartupOrdering ==
    daemonOp.name = "run"
    => IF daemonOp.fail = None
       THEN /\ daemonRaised = None
            /\ mainloop = "running"
            /\ daemonLog = << "systemd.get_object", "sysd_manager.Subscribe",
                              "add_signal_receiver(wpa_supplicant)",
                              "add_signal_receiver(hostapd)",
                              "dnsmasq.get_object", "dnsmasq.connect_to_signal",
                              "mainloop.run" >>
            /\ subscribed
            /\ receivers = {"wpa_supplicant", "hostapd", "dnsmasq"}
       ELSE /\ daemonRaised = "WiFiMonitorError"
            /\ mainloop # "running"
            /\ \A i \in 1..Len(daemonLog) : daemonLog[i] # "mainloop.run"

C17_Witness ==
    /\ daemonOp.name = "run"
    /\ daemonOp.fail = None
    /\ mainloop = "running"
    /\ daemonLog[Len(daemonLog)] = "mainloop.run"
    /\ receivers = {"wpa_supplicant", "hostapd", "dnsmasq"}

-----------------------------------------------------------------------------
(* Properties of status reporting and connecting *)

\* C18: get_status() raises nothing and leaves the services as they were; in
\* Client mode it reads the client status and returns (Client, status), in
\* Hotspot mode it reads the access point's name and returns (Hotspot, name),
\* and when that read fails with PropertyError it returns (mode, None); in Off
\* mode it reads neither facade and returns (Off, None).
C18_GetStatus ==
    lastOp = "get_status"
    => /\ Services = ServicesBefore
       /\ ret # "PropertyError"
       /\ IF wpaStarted
          THEN /\ CallNames = <<"wpa_supplicant.get_status">>
               /\ ret = <<CLIENT_STATE, IF calls[1].ok THEN WpaStatus ELSE None>>
          ELSE IF hostapdStarted
          THEN /\ CallNames = <<"hotspot.get_hotspot_ssid">>
               /\ ret = <<HOTSPOT_STATE, IF calls[1].ok THEN HotspotSsid ELSE None>>
          ELSE /\ calls = <<>>
               /\ ret = <<OFF_STATE, None>>

C18_Witness ==
    /\ lastOp = "get_status"
    /\ hostapdStarted /\ ~wpaStarted
    /\ Len(calls) = 1 /\ ~calls[1].ok
    /\ ret = <<HOTSPOT_STATE, None>>

\* C19: start_connecting, from any mode, makes the calls of start_client_mode
\* (stop the access point if it was started, then restart or start the client
\* service) and only then tells the client facade to start the attempt; the
\* calls succeeding, the access point is not started and the client service
\* is started when the attempt is armed; a callback given by the caller is
\* kept with the caller's network, args and timeout.
C19_ConnectOrdering ==
    lastOp = "start_connecting"
    => /\ CallNames =
            (IF pre.hostapd THEN <<"hotspot.stop">> ELSE <<>>)
            \o <<IF pre.wpa THEN "wpa_supplicant.restart" ELSE "wpa_supplicant.start">>
            \o <<"wpa_supplicant.start_connecting">>
       /\ AllOk => /\ calls[Len(calls)].wpa
                   /\ ~calls[Len(calls)].hostapd
       /\ opArgs.callback # None
          => attempt = [network |-> opArgs.network, callback |-> opArgs.callback,
                        args |-> opArgs.args, timeout |-> opArgs.timeout]

C19_Witness ==
    /\ lastOp = "start_connecting"
    /\ pre.hostapd /\ ~pre.wpa
    /\ AllOk
    /\ CallNames = <<"hotspot.stop", "wpa_supplicant.start",
                     "wpa_supplicant.start_connecting">>
    /\ opArgs.callback = "user_cb"
    /\ attempt = [network |-> "office", callback |-> "user_cb", args |-> "x",
                  timeout |-> 3]
    /\ wpaStarted /\ ~hostapdStarted

=============================================================================
